---- MODULE Spec2Model ----
(***************************************************************************)
(* Model of DupeChecker.py: check_duplicate_channel_cue(file_paths).       *)
(* The function reads each CSV file in order, records every row with      *)
(* integer (#Channel, #Cue) keys under its pair in pair_origins, then      *)
(* prints every pair with more than one occurrence and one closing line.   *)
(*                                                                         *)
(* A file on disk is a kind plus the physical lines that follow the two    *)
(* preamble lines and the header line: physical line 3 + k is lines[k].    *)
(* pd.read_csv(header=2) keeps its default skip_blank_lines=True, so an    *)
(* empty physical line never becomes a DataFrame row.                      *)
(***************************************************************************)
EXTENDS Integers, Sequences, FiniteSets, TLC

\* ---------------------------------------------------------------- bounds
MaxFiles == 3        \* longest file_paths list
MaxLines == 3        \* size of the file when the list names one path
MaxBatchLines == 2   \* size of both files together when the list names two

\* ---------------------------------------------------------------- inputs

Num(n) == [kind |-> "num", val |-> n]
NA == [kind |-> "na", val |-> 0]
TXT == [kind |-> "text", val |-> 0]
INF == [kind |-> "inf", val |-> 0]

\* a physical line of the data region: <<>> is an empty line, otherwise the
\* cells of the '#Channel' and '#Cue' columns
BlankLine == <<>>
SampleLines ==
  { BlankLine,
    <<Num(1), Num(1)>>, <<Num(1), Num(2)>>,
    <<NA, Num(1)>>,
    <<TXT, Num(1)>>, <<Num(1), TXT>>,
    <<INF, Num(1)>> }

RECURSIVE LinesUpTo(_)
LinesUpTo(n) ==
  IF n = 0 THEN { <<>> }
  ELSE LET prev == LinesUpTo(n - 1)
       IN  prev \cup { Append(s, l) : s \in { t \in prev : Len(t) = n - 1 }, l \in SampleLines }

File(kind, lines) == [kind |-> kind, lines |-> lines]
MissingFile == File("missing", <<>>)
FailedFiles ==
  { MissingFile, File("empty", <<>>), File("malformed", <<>>), File("nocols", <<>>) }
Files(n) == FailedFiles \cup { File("csv", ls) : ls \in LinesUpTo(n) }

\* file_paths: every list of at most MaxFiles paths, the paths named in the
\* order of their first appearance (the program never looks inside a name)
FirstPath == "a.csv"
SecondPath == "b.csv"
Paths == {FirstPath, SecondPath}
PathSeqs ==
  { s \in UNION { [1..n -> Paths] : n \in 0..MaxFiles } : Len(s) > 0 => s[1] = FirstPath }
Range(s) == { s[k] : k \in 1..Len(s) }

\* the size of a file as an input: its data-region lines, or 1 for a file
\* that cannot be read as a table
Weight(f) == IF f.kind = "csv" THEN Len(f.lines) ELSE 1

\* the size the files of the list have between them
SizeBudget(s) == IF SecondPath \in Range(s) THEN MaxBatchLines ELSE MaxLines

\* the files the path p may hold when size n is left to hand out: a path the
\* run never opens is left absent
FilesFor(p, used, n) ==
  IF p \in used THEN { f \in Files(n) : Weight(f) <= n } ELSE { MissingFile }

\* ---------------------------------------------------------------- pandas
\* pd.read_csv(file_path, header=2): the rows of the DataFrame are the
\* non-empty lines after the header, indexed 0, 1, 2, ... in order
DataFrame(lines) == SelectSeq(lines, LAMBDA l : l # BlankLine)

\* a column holding any non-numeric text is read with dtype object: all of
\* its cells stay strings
ColumnIsObject(df, c) == \E r \in 1..Len(df) : df[r][c].kind = "text"

\* pd.isna(cell)
IsNa(cell) == cell.kind = "na"

\* int(cell): "ok", or the exception class it raises
IntResult(cell, df, c) ==
  CASE cell.kind = "num"  -> "ok"
    [] cell.kind = "text" -> "ValueError"
    [] cell.kind = "na"   -> "ValueError"
    [] cell.kind = "inf"  -> IF ColumnIsObject(df, c) THEN "ValueError" ELSE "OverflowError"

IntOf(cell) == cell.val

\* ---------------------------------------------------------------- program
VARIABLES file_paths, fs, pc, i, df, idx, pair_origins, duplicates_found, rp, out

vars == <<file_paths, fs, pc, i, df, idx, pair_origins, duplicates_found, rp, out>>

Msg(t, file, n) == [t |-> t, file |-> file, n |-> n, pair |-> <<0, 0>>, locs |-> <<>>]

Init ==
  /\ file_paths \in PathSeqs
  /\ \E fa \in FilesFor(FirstPath, Range(file_paths), SizeBudget(file_paths)) :
       \E fb \in FilesFor(SecondPath, Range(file_paths),
                          SizeBudget(file_paths) - Weight(fa)) :
         fs = [p \in Paths |-> IF p = FirstPath THEN fa ELSE fb]
  /\ pc = "start"
  /\ i = 1
  /\ df = <<>>
  /\ idx = 0
  /\ pair_origins = <<>>
  /\ duplicates_found = FALSE
  /\ rp = 1
  /\ out = <<>>

\* lines 22-25
Begin ==
  /\ pc = "start"
  /\ pc' = "ingest"
  /\ out' = out \o << Msg("banner", "", Len(file_paths)), Msg("note", "", 1) >>
  /\ UNCHANGED <<file_paths, fs, i, df, idx, pair_origins, duplicates_found, rp>>

\* line 28: the path the for loop is at
CurrentPath == file_paths[i]

\* os.path.exists(file_path), line 29
Exists(p) == fs[p].kind # "missing"

\* Handler without the 'except Exception' clause of line 68
HandlerNoCatchAll(exc) ==
  CASE exc = "EmptyDataError" -> "empty"
    [] exc = "ParserError"    -> "parse"
    [] OTHER                  -> "uncaught"

\* the except clauses of lines 64-69: which handler takes an exception that
\* leaves the try block ("Exception" catches every other class)
Handler(exc) ==
  CASE exc = "EmptyDataError" -> "empty"
    [] exc = "ParserError"    -> "parse"
    [] OTHER                  -> "unexpected"

\* the loop of line 28 goes on after a handler has run; an exception no
\* clause takes would leave the function
AfterHandler(h) == IF h \in {"empty", "parse", "unexpected"} THEN "ingest" ELSE "crashed"

\* lines 29-31
FileNotFound ==
  /\ pc = "ingest"
  /\ i <= Len(file_paths)
  /\ ~Exists(CurrentPath)
  /\ out' = Append(out, Msg("notfound", CurrentPath, 0))
  /\ i' = i + 1
  /\ UNCHANGED <<file_paths, fs, pc, df, idx, pair_origins, duplicates_found, rp>>

\* line 36 raising pd.errors.EmptyDataError or pd.errors.ParserError, taken
\* by lines 64-67
ReadCsvRaises ==
  /\ pc = "ingest"
  /\ i <= Len(file_paths)
  /\ Exists(CurrentPath)
  /\ fs[CurrentPath].kind \in {"empty", "malformed"}
  /\ LET exc == IF fs[CurrentPath].kind = "empty" THEN "EmptyDataError" ELSE "ParserError"
         h == Handler(exc)
     IN  /\ out' = Append(out, Msg(h, CurrentPath, 0))
         /\ pc' = AfterHandler(h)
  /\ i' = i + 1
  /\ UNCHANGED <<file_paths, fs, df, idx, pair_origins, duplicates_found, rp>>

\* lines 39-42
MissingColumns ==
  /\ pc = "ingest"
  /\ i <= Len(file_paths)
  /\ Exists(CurrentPath)
  /\ fs[CurrentPath].kind = "nocols"
  /\ out' = out \o << Msg("nocols", CurrentPath, 0), Msg("nocolshint", CurrentPath, 0) >>
  /\ i' = i + 1
  /\ UNCHANGED <<file_paths, fs, pc, df, idx, pair_origins, duplicates_found, rp>>

\* lines 36-46 for a file that parses and has both columns: the row loop
\* starts at index 0, or is over at once when the DataFrame has no row
ReadCsv ==
  /\ pc = "ingest"
  /\ i <= Len(file_paths)
  /\ Exists(CurrentPath)
  /\ fs[CurrentPath].kind = "csv"
  /\ LET frame == DataFrame(fs[CurrentPath].lines)
     IN  IF frame = <<>>
         THEN /\ i' = i + 1
              /\ UNCHANGED <<pc, df>>
         ELSE /\ pc' = "rows"
              /\ df' = frame
              /\ UNCHANGED i
  /\ idx' = 0
  /\ UNCHANGED <<file_paths, fs, pair_origins, duplicates_found, rp, out>>

\* the row df.iterrows() yields at idx (0-based)
CurrentRow == df[idx + 1]

\* line 48
MissingKey(row) == IsNa(row[1]) \/ IsNa(row[2])

\* RowOutcome with the append placed before the conversion of the cue, so
\* that a row whose cue alone fails to convert is still recorded
RowOutcomeAppendEarly(row, frame) ==
  IF MissingKey(row) THEN "missing"
  ELSE LET r1 == IntResult(row[1], frame, 1)
       IN  IF r1 # "ok" THEN r1 ELSE "append"

\* lines 48-62 for one row: "missing", "append", or the exception class
\* raised by line 53 or, when line 53 passed, by line 54
RowOutcome(row, frame) ==
  IF MissingKey(row) THEN "missing"
  ELSE LET r1 == IntResult(row[1], frame, 1)
       IN  IF r1 # "ok" THEN r1
           ELSE LET r2 == IntResult(row[2], frame, 2)
                IN  IF r2 # "ok" THEN r2 ELSE "append"

\* line 56
CsvLineNumber(n) == n + 3

\* line 62: the row number the warning cites
WarnedRow(n) == n + 3

\* DisplayedLine adding two instead of one
DisplayedLinePlusTwo(n) == n + 2

\* line 86: the line number the report prints for a stored line number
DisplayedLine(n) == n + 1

\* AddOccurrence inserting at the front of the list and of the mapping
AddOccurrenceAtFront(po, pair, occ) ==
  IF \E k \in 1..Len(po) : po[k].pair = pair
  THEN [k \in 1..Len(po) |->
          IF po[k].pair = pair THEN [po[k] EXCEPT !.occ = <<occ>> \o @] ELSE po[k]]
  ELSE <<[pair |-> pair, occ |-> <<occ>>]>> \o po

\* line 59: pair_origins[pair].append(occ); a defaultdict creates the key, at
\* the end of its insertion order, on first use
AddOccurrence(po, pair, occ) ==
  IF \E k \in 1..Len(po) : po[k].pair = pair
  THEN [k \in 1..Len(po) |->
          IF po[k].pair = pair THEN [po[k] EXCEPT !.occ = Append(@, occ)] ELSE po[k]]
  ELSE Append(po, [pair |-> pair, occ |-> <<occ>>])

\* the for loop of line 46 moves to the next row, or is exhausted and the
\* loop of line 28 moves to the next file
NextRow ==
  IF idx + 1 < Len(df)
  THEN /\ idx' = idx + 1
       /\ UNCHANGED <<pc, i, df>>
  ELSE /\ pc' = "ingest"
       /\ i' = i + 1
       /\ df' = <<>>
       /\ idx' = 0

\* lines 48-49
RowMissingKey ==
  /\ pc = "rows"
  /\ RowOutcome(CurrentRow, df) = "missing"
  /\ NextRow
  /\ UNCHANGED <<file_paths, fs, pair_origins, duplicates_found, rp, out>>

\* lines 53-59
RowAppend ==
  /\ pc = "rows"
  /\ RowOutcome(CurrentRow, df) = "append"
  /\ LET channel == IntOf(CurrentRow[1])
         cue == IntOf(CurrentRow[2])
         pair == <<channel, cue>>
         csv_line_number == CsvLineNumber(idx)
     IN  pair_origins' = AddOccurrence(pair_origins, pair, <<CurrentPath, csv_line_number>>)
  /\ NextRow
  /\ UNCHANGED <<file_paths, fs, duplicates_found, rp, out>>

\* lines 61-62
RowValueError ==
  /\ pc = "rows"
  /\ RowOutcome(CurrentRow, df) = "ValueError"
  /\ out' = Append(out, Msg("badrow", CurrentPath, WarnedRow(idx)))
  /\ NextRow
  /\ UNCHANGED <<file_paths, fs, pair_origins, duplicates_found, rp>>

\* an exception of line 53 or 54 that is no ValueError leaves the row loop
\* and is taken by lines 68-69; pair_origins keeps what was appended
RowRaises ==
  /\ pc = "rows"
  /\ RowOutcome(CurrentRow, df) \notin {"missing", "append", "ValueError"}
  /\ LET h == Handler(RowOutcome(CurrentRow, df))
     IN  /\ out' = Append(out, Msg(h, CurrentPath, 0))
         /\ pc' = AfterHandler(h)
  /\ i' = i + 1
  /\ df' = <<>>
  /\ idx' = 0
  /\ UNCHANGED <<file_paths, fs, pair_origins, duplicates_found, rp>>

\* lines 72-73
StartReport ==
  /\ pc = "ingest"
  /\ i > Len(file_paths)
  /\ pc' = "report"
  /\ rp' = 1
  /\ out' = Append(out, Msg("summary", "", 0))
  /\ UNCHANGED <<file_paths, fs, i, df, idx, pair_origins, duplicates_found>>

\* IsDuplicate with the threshold off by one
IsDuplicateOverTwo(occurrences) == Len(occurrences) > 2

\* line 77
IsDuplicate(occurrences) == Len(occurrences) > 1

\* lines 80-86: the block printed for one pair
Block(pair, occurrences) ==
  [t |-> "dup", file |-> "", n |-> Len(occurrences), pair |-> pair,
   locs |-> [k \in 1..Len(occurrences) |->
               <<occurrences[k][1], DisplayedLine(occurrences[k][2])>>]]

\* lines 76-86 for the pair at position rp of pair_origins.items()
ReportDuplicate ==
  /\ pc = "report"
  /\ rp <= Len(pair_origins)
  /\ IsDuplicate(pair_origins[rp].occ)
  /\ duplicates_found' = TRUE
  /\ out' = Append(out, Block(pair_origins[rp].pair, pair_origins[rp].occ))
  /\ rp' = rp + 1
  /\ UNCHANGED <<file_paths, fs, pc, i, df, idx, pair_origins>>

\* lines 76-77 for a pair with a single occurrence
SkipUnique ==
  /\ pc = "report"
  /\ rp <= Len(pair_origins)
  /\ ~IsDuplicate(pair_origins[rp].occ)
  /\ rp' = rp + 1
  /\ UNCHANGED <<file_paths, fs, pc, i, df, idx, pair_origins, duplicates_found, out>>

\* ClosingMessage with the test inverted
ClosingMessageInverted(found) == IF found THEN "success" ELSE "completed"

\* lines 90-93
ClosingMessage(found) == IF ~found THEN "success" ELSE "completed"

\* lines 88-93
Close ==
  /\ pc = "report"
  /\ rp > Len(pair_origins)
  /\ pc' = "done"
  /\ out' = Append(out, Msg(ClosingMessage(duplicates_found), "", 0))
  /\ UNCHANGED <<file_paths, fs, i, df, idx, pair_origins, duplicates_found, rp>>

Next ==
  \/ Begin
  \/ FileNotFound
  \/ ReadCsvRaises
  \/ MissingColumns
  \/ ReadCsv
  \/ RowMissingKey
  \/ RowAppend
  \/ RowValueError
  \/ RowRaises
  \/ StartReport
  \/ ReportDuplicate
  \/ SkipUnique
  \/ Close

Spec == Init /\ [][Next]_vars

\* the single thread runs until the function returns
FairSpec == Spec /\ WF_vars(Next)

\* ------------------------------------------------------------ reference
\* What the inputs contain, read off file_paths and fs without running the
\* program: the vocabulary the properties below are stated in.

Frame(p) == DataFrame(fs[p].lines)

\* the pair a row with two integer keys stands for
PairAt(row) == <<IntOf(row[1]), IntOf(row[2])>>

\* row r (1-based) of the file's DataFrame has two non-missing keys that
\* both convert to integers
ValidRow(p, r) ==
  LET row == Frame(p)[r]
  IN  /\ ~IsNa(row[1]) /\ ~IsNa(row[2])
      /\ IntResult(row[1], Frame(p), 1) = "ok"
      /\ IntResult(row[2], Frame(p), 2) = "ok"

\* row r raises an exception that is neither absorbed by the missing-key test
\* nor a ValueError
AbortingRow(p, r) ==
  RowOutcome(Frame(p)[r], Frame(p)) \notin {"missing", "append", "ValueError"}

Aborts(p) == fs[p].kind = "csv" /\ \E r \in 1..Len(Frame(p)) : AbortingRow(p, r)

\* the file is skipped for a per-file error
Skipped(p) == fs[p].kind # "csv" \/ Aborts(p)

\* the physical (1-based, absolute) line of DataFrame row r of the file
PhysicalLine(p, r) ==
  LET lines == fs[p].lines
  IN  3 + (CHOOSE k \in 1..Len(lines) :
             /\ lines[k] # BlankLine
             /\ Cardinality({ m \in 1..k : lines[m] # BlankLine }) = r)

ValidRowsOf(p, pair) ==
  IF fs[p].kind # "csv" THEN {}
  ELSE { r \in 1..Len(Frame(p)) : ValidRow(p, r) /\ PairAt(Frame(p)[r]) = pair }

\* the pairs the sample rows with two integer keys stand for
KnownPairs ==
  { PairAt(l) : l \in { m \in SampleLines :
                          m # BlankLine /\ m[1].kind = "num" /\ m[2].kind = "num" } }

\* the rows of one ingestion of the file that reach line 59, in row order
Contribution(p) ==
  IF fs[p].kind # "csv" THEN <<>>
  ELSE LET n == Len(Frame(p))
           reached == { r \in 1..n : \A q \in 1..r : ~AbortingRow(p, q) }
           rows == SelectSeq([r \in 1..n |-> r],
                             LAMBDA r : r \in reached /\ ValidRow(p, r))
       IN  [k \in 1..Len(rows) |->
              [pair |-> PairAt(Frame(p)[rows[k]]), file |-> p, row |-> rows[k]]]

\* every row that reaches line 59 during the run, in processing order
RECURSIVE EncountersUpTo(_)
EncountersUpTo(j) ==
  IF j = 0 THEN <<>> ELSE EncountersUpTo(j - 1) \o Contribution(file_paths[j])

Encounters == EncountersUpTo(Len(file_paths))
EncountersOf(pair) == SelectSeq(Encounters, LAMBDA e : e.pair = pair)
FirstEncounter(pair) == CHOOSE k \in 1..Len(Encounters) :
                          /\ Encounters[k].pair = pair
                          /\ \A m \in 1..(k - 1) : Encounters[m].pair # pair
SecondEncounter(pair) == CHOOSE k \in 1..Len(Encounters) :
                          /\ Encounters[k].pair = pair
                          /\ Cardinality({ m \in 1..(k - 1) : Encounters[m].pair = pair }) = 1

\* the 'DUPLICATE PAIR FOUND' blocks printed so far, in print order
Blocks == SelectSeq(out, LAMBDA m : m.t = "dup")
BlocksOf(pair) == SelectSeq(Blocks, LAMBDA b : b.pair = pair)
Closings == SelectSeq(out, LAMBDA m : m.t \in {"success", "completed"})
FileErrors == {"notfound", "empty", "parse", "nocols", "unexpected"}
Count(seq, x) == Cardinality({ k \in 1..Len(seq) : seq[k] = x })
Positions(p) == { j \in 1..Len(file_paths) : file_paths[j] = p }

\* --------------------------------------------------------------- claims

\* the rows with valid integer keys that the ingestions of file p hold for
\* the pair, when the file is read without a per-file error
RowsCounted(pair, p) ==
  IF Skipped(p) THEN 0 ELSE Cardinality(Positions(p)) * Cardinality(ValidRowsOf(p, pair))
C1_Expected(pair) == RowsCounted(pair, FirstPath) + RowsCounted(pair, SecondPath)

\* C1: once the run is over, a pair has a 'DUPLICATE PAIR FOUND' block if and
\* only if it occurs in k >= 2 rows with valid integer keys over the
\* ingestions of the files that were read without a per-file error; the block
\* states k and lists k locations, one per such row of each file.
C1_DuplicateBlocks ==
  pc = "done" =>
    \A pair \in KnownPairs :
      LET k == C1_Expected(pair)
          bs == BlocksOf(pair)
      IN  /\ Len(bs) = (IF k >= 2 THEN 1 ELSE 0)
          /\ \A n \in 1..Len(bs) :
               /\ bs[n].n = k
               /\ Len(bs[n].locs) = k
               /\ \A p \in Paths :
                    Cardinality({ m \in 1..k : bs[n].locs[m][1] = p }) = RowsCounted(pair, p)

\* C2: every location of every printed block shows the physical line of the
\* data row it was recorded for.
C2_PhysicalLines ==
  \A n \in 1..Len(Blocks) :
    LET b == Blocks[n]
        es == EncountersOf(b.pair)
    IN  \A k \in 1..Len(b.locs) :
          k <= Len(es) => b.locs[k][2] = PhysicalLine(es[k].file, es[k].row)

\* the scenario of C3: one file whose rows (1,1) are those of physical lines
\* 4 and 6, and what the report shows for the pair
Row11 == <<Num(1), Num(1)>>
C3_Scenario ==
  /\ Len(file_paths) = 1
  /\ LET f == fs[file_paths[1]]
     IN  /\ f.kind = "csv"
         /\ Len(f.lines) >= 3
         /\ \A k \in 1..Len(f.lines) : (f.lines[k] = Row11) <=> (k \in {1, 3})
C3_ShownLines(first, second) ==
  /\ Len(BlocksOf(<<1, 1>>)) = 1
  /\ BlocksOf(<<1, 1>>)[1].n = 2
  /\ BlocksOf(<<1, 1>>)[1].locs = << <<file_paths[1], first>>, <<file_paths[1], second>> >>

C4_OneClosing ==
  /\ pc # "done" => Closings = <<>>
  /\ pc = "done" =>
       /\ Len(Closings) = 1
       /\ out[Len(out)] = Closings[1]
       /\ (Closings[1].t = "success") <=>
            (\A k \in 1..Len(pair_origins) : Len(pair_origins[k].occ) < 2)
       /\ (Closings[1].t = "success") <=> (Blocks = <<>>)
       /\ (Closings[1].t = "completed") <=> (Blocks # <<>>)
C4_Witness ==
  /\ pc = "done"
  /\ Blocks # <<>>
  /\ out[Len(out)].t = "completed"
  /\ \E k \in 1..Len(pair_origins) : Len(pair_origins[k].occ) = 1

\* a step that prints the diagnostic of a per-file failure
C5_FailureStep ==
  /\ Len(out') > Len(out)
  /\ out'[Len(out')].t \in FileErrors \cup {"nocolshint"}

\* C5: no per-file failure ends the run: the step that reports it moves to
\* the next path of the list with the index untouched, no exception leaves
\* the function, and the run reaches its closing line.
C5_BatchSurvives ==
  /\ [](pc # "crashed")
  /\ [][C5_FailureStep =>
          /\ i' = i + 1
          /\ pc' = "ingest"
          /\ pair_origins' = pair_origins]_vars
  /\ <>(pc = "done" /\ Closings # <<>>)
C5_Witness ==
  /\ pc = "done"
  /\ Len(file_paths) = 3
  /\ Aborts(file_paths[2])
  /\ ~Skipped(file_paths[1])
  /\ file_paths[3] = file_paths[1]
  /\ \E k \in 1..Len(out) : out[k].t = "unexpected"
  /\ Len(Blocks) = 1

\* C6: a file that was skipped for a per-file error has left no occurrence
\* in the index.
C6_NoPartialFile ==
  \A j \in 1..Len(file_paths) :
    (j < i /\ Skipped(file_paths[j])) =>
      \A k \in 1..Len(pair_origins) :
        \A m \in 1..Len(pair_origins[k].occ) : pair_origins[k].occ[m][1] # file_paths[j]

\* C7: every occurrence of the index was recorded for a DataFrame row of its
\* file whose two keys are both present and both converted to the integers
\* of the pair it is stored under.
C7_ValidOccurrences ==
  \A k \in 1..Len(pair_origins) :
    \A m \in 1..Len(pair_origins[k].occ) :
      LET p == pair_origins[k].occ[m][1]
          line == pair_origins[k].occ[m][2]
      IN  /\ fs[p].kind = "csv"
          /\ \E r \in 1..Len(Frame(p)) :
               /\ line = (r - 1) + 3
               /\ ValidRow(p, r)
               /\ PairAt(Frame(p)[r]) = pair_origins[k].pair
C7_Witness ==
  /\ pc = "done"
  /\ pair_origins # <<>>
  /\ \E p \in Range(file_paths) :
       /\ fs[p].kind = "csv"
       /\ \E r \in 1..Len(Frame(p)) : Frame(p)[r] = <<Num(1), TXT>>
       /\ \E r \in 1..Len(Frame(p)) : Frame(p)[r] = <<NA, Num(1)>>
       /\ \E r \in 1..Len(Frame(p)) : ValidRow(p, r)

\* C8: the warning for a row whose conversion fails cites the line the
\* report would display for that row, idx + 4.
C8_WarnedLine ==
  [][(/\ Len(out') > Len(out)
      /\ out'[Len(out')].t = "badrow")
       => out'[Len(out')].n = idx + 4]_vars

\* C9: each block lists its occurrences in file processing order and, inside
\* one ingestion, in ascending row order; the blocks are printed in the order
\* in which their pairs were first encountered.
C9_Order ==
  pc = "done" =>
    /\ \A n \in 1..Len(Blocks) :
         LET es == EncountersOf(Blocks[n].pair)
         IN  Blocks[n].locs = [k \in 1..Len(es) |-> <<es[k].file, (es[k].row - 1) + 4>>]
    /\ \A n1, n2 \in 1..Len(Blocks) :
         n1 < n2 => FirstEncounter(Blocks[n1].pair) < FirstEncounter(Blocks[n2].pair)
C9_Witness ==
  /\ pc = "done"
  /\ Len(Blocks) = 2
  /\ SecondEncounter(Blocks[2].pair) < SecondEncounter(Blocks[1].pair)
  /\ Len(file_paths) = 2

\* the premise of C10 and the listing it promises: the pair has one block,
\* in which each valid row of the file appears once per ingestion
C10_Repeated(p) == Cardinality(Positions(p)) >= 2 /\ ~Skipped(p)
C10_Listed(p, pair) ==
  /\ Len(BlocksOf(pair)) = 1
  /\ \A r \in ValidRowsOf(p, pair) :
       Count(BlocksOf(pair)[1].locs, <<p, (r - 1) + 4>>) = Cardinality(Positions(p))

\* C10 as written: a path read without error that appears m >= 2 times has
\* every pair with r >= 1 valid rows reported with count m * r, each of its
\* locations listed m times.
C10_CountIsMTimesRows ==
  pc = "done" =>
    \A p \in Paths : \A pair \in KnownPairs :
      (C10_Repeated(p) /\ ValidRowsOf(p, pair) # {}) =>
        /\ C10_Listed(p, pair)
        /\ BlocksOf(pair)[1].n = Cardinality(Positions(p)) * Cardinality(ValidRowsOf(p, pair))

\* the occurrences of the pair recorded from the paths other than p
C10_FromOthers(p, pair) ==
  Cardinality({ k \in 1..Len(Encounters) : Encounters[k].pair = pair /\ Encounters[k].file # p })

\* C10 amended: the pair is reported, each of the file's locations is listed
\* m times, and the count is m * r plus the occurrences of the pair recorded
\* from the other paths.
C10_CountWithOthers ==
  pc = "done" =>
    \A p \in Paths : \A pair \in KnownPairs :
      (C10_Repeated(p) /\ ValidRowsOf(p, pair) # {}) =>
        /\ C10_Listed(p, pair)
        /\ BlocksOf(pair)[1].n =
             Cardinality(Positions(p)) * Cardinality(ValidRowsOf(p, pair))
               + C10_FromOthers(p, pair)
C10_Witness ==
  /\ pc = "done"
  /\ \E p \in Paths :
       /\ C10_Repeated(p)
       /\ \A pair \in KnownPairs : Cardinality(ValidRowsOf(p, pair)) = 1
       /\ Len(Blocks) = 2
       /\ \A n \in 1..2 : Blocks[n].n = 2
====
